---- MODULE Spec2Model ----
(***************************************************************************)
(* The Swift/Objective-C++ backend of the schema compiler                  *)
(* (src/idl_gen_swift.cpp): SwiftGenerator::generate() walking the parsed  *)
(* schema and appending lines to the header and implementation writers,    *)
(* and the behaviour of the code it emits against the buffer runtime.      *)
(***************************************************************************)
EXTENDS Integers, Sequences, FiniteSets, TLC

VARIABLES
    parser,     \* the schema model handed to the generator (const Parser &)
    pc,         \* position of the control inside generate()
    arrays,     \* std::map<std::string, Type> arrays, as a key-sorted sequence
    code_h_,    \* CodeWriter of the header: [lines, vals]
    code_mm_,   \* CodeWriter of the implementation file: [lines, vals]
    files,      \* the three output files on disk
    ret,        \* what the last call of generate() returned
    fbb,        \* the FlatBufferBuilder the emitted builder methods act on
    result      \* outcome of the last call into emitted code

vars == <<parser, pc, arrays, code_h_, code_mm_, files, ret, fbb, result>>

----------------------------------------------------------------------------
(* Bounds of the model.                                                    *)

MaxStructs == 2

MaxBuf == 2

----------------------------------------------------------------------------
(* The schema model: Type, FieldDef, StructDef (flatbuffers/idl.h).        *)

ScalarTypes ==
    {"NONE", "UTYPE", "BOOL", "CHAR", "UCHAR", "SHORT", "USHORT", "INT",
     "UINT", "LONG", "ULONG", "FLOAT", "DOUBLE"}

BaseTypes == ScalarTypes \cup {"STRING", "VECTOR", "STRUCT", "UNION", "ARRAY"}

\* Type(base_type, struct_def, element): struct_def is an index into
\* parser.structs_ (0 is the null pointer).
MkType(b, e, sd) == [base_type |-> b, element |-> e, struct_def |-> sd]

\* Type::VectorType(): the element type of a vector.
VectorType(type) == MkType(type.element, "NONE", type.struct_def)

MkField(n, t, dep, k) == [name |-> n, type |-> t, deprecated |-> dep, key |-> k]

StructAt(i) == parser.structs_[i]

NumStructs == Len(parser.structs_)

\* The abort() of the unsupported branches: a sentinel that every string built
\* from it propagates.
Abort == "<abort>"

Cat(a, b) == IF a = Abort \/ b = Abort THEN Abort ELSE a \o b

----------------------------------------------------------------------------
(* Identifier helpers of the generator.                                    *)

keywords_ ==
    {"alignas", "alignof", "and", "and_eq", "asm", "atomic_cancel",
     "atomic_commit", "atomic_noexcept", "auto", "bitand", "bitor", "bool",
     "break", "case", "catch", "char", "char16_t", "char32_t", "class",
     "compl", "concept", "const", "constexpr", "const_cast", "continue",
     "co_await", "co_return", "co_yield", "decltype", "default", "delete",
     "do", "double", "dynamic_cast", "else", "enum", "explicit", "export",
     "extern", "false", "float", "for", "friend", "goto", "if", "import",
     "inline", "int", "long", "module", "mutable", "namespace", "new",
     "noexcept", "not", "not_eq", "nullptr", "operator", "or", "or_eq",
     "private", "protected", "public", "register", "reinterpret_cast",
     "requires", "return", "short", "signed", "sizeof", "static",
     "static_assert", "static_cast", "struct", "switch", "synchronized",
     "template", "this", "thread_local", "throw", "true", "try", "typedef",
     "typeid", "typename", "union", "unsigned", "using", "virtual", "void",
     "volatile", "wchar_t", "while", "xor", "xor_eq"}

EscapeKeyword(name) == IF name \in keywords_ THEN name \o "_" ELSE name

Name(def) == EscapeKeyword(def.name)

\* BaseGenerator::WrapInNameSpace with the "::" separator the constructor
\* passes: the namespace components, then the name.
WrapInNameSpace(def) == def.defined_namespace \o "::" \o def.name

GenTypeInternalDef(def) == EscapeKeyword(def.name)

ScalarInternal(b) ==
    CASE b = "NONE" -> "FlatBufferUInt8"
      [] b = "UTYPE" -> "FlatBufferUInt8"
      [] b = "BOOL" -> "FlatBufferBool"
      [] b = "CHAR" -> "FlatBufferInt8"
      [] b = "UCHAR" -> "FlatBufferUInt8"
      [] b = "SHORT" -> "FlatBufferInt16"
      [] b = "USHORT" -> "FlatBufferUInt16"
      [] b = "INT" -> "FlatBufferInt32"
      [] b = "UINT" -> "FlatBufferUInt32"
      [] b = "LONG" -> "FlatBufferInt64"
      [] b = "ULONG" -> "FlatBufferUInt64"
      [] b = "FLOAT" -> "FlatBufferFloat"
      [] b = "DOUBLE" -> "FlatBufferDouble"

ScalarC(b) ==
    CASE b = "NONE" -> "uint8_t"
      [] b = "UTYPE" -> "uint8_t"
      [] b = "BOOL" -> "bool"
      [] b = "CHAR" -> "int8_t"
      [] b = "UCHAR" -> "uint8_t"
      [] b = "SHORT" -> "int16_t"
      [] b = "USHORT" -> "uint16_t"
      [] b = "INT" -> "int32_t"
      [] b = "UINT" -> "uint32_t"
      [] b = "LONG" -> "int64_t"
      [] b = "ULONG" -> "uint64_t"
      [] b = "FLOAT" -> "float"
      [] b = "DOUBLE" -> "double"

\* GenTypeInternal(const Type &): the recursion on a vector goes through
\* VectorType(), whose own element is NONE, so it is at most two deep.
GenTypeInternalElem(type) ==
    CASE type.base_type \in ScalarTypes -> ScalarInternal(type.base_type)
      [] type.base_type = "STRING" -> "FlatBufferString"
      [] type.base_type = "VECTOR" -> "FlatBufferUInt8Array"
      [] type.base_type = "STRUCT" -> GenTypeInternalDef(StructAt(type.struct_def))
      [] OTHER -> Abort

GenTypeInternal(type) ==
    CASE type.base_type \in ScalarTypes -> ScalarInternal(type.base_type)
      [] type.base_type = "STRING" -> "FlatBufferString"
      [] type.base_type = "VECTOR" ->
            Cat(GenTypeInternalElem(VectorType(type)), "Array")
      [] type.base_type = "STRUCT" -> GenTypeInternalDef(StructAt(type.struct_def))
      [] OTHER -> Abort

GenTypeFlatbuffersDef(def) == WrapInNameSpace(def)

GenTypeFlatbuffersOffsetDef(def) ==
    "flatbuffers::Offset<" \o GenTypeFlatbuffersDef(def) \o ">"

\* GenTypeFlatbuffers(const Type &) of an element type (a VectorType()).
GenTypeFlatbuffersElem(type) ==
    CASE type.base_type \in ScalarTypes -> ScalarC(type.base_type)
      [] type.base_type = "STRING" -> "flatbuffers::String"
      [] type.base_type = "VECTOR" -> "flatbuffers::Vector<uint8_t>"
      [] type.base_type = "STRUCT" -> GenTypeFlatbuffersDef(StructAt(type.struct_def))
      [] OTHER -> Abort

GenTypeFlatbuffersOffset(type) ==
    CASE type.base_type \in ScalarTypes -> ScalarC(type.base_type)
      [] type.base_type \in {"STRING", "VECTOR"} ->
            Cat("flatbuffers::Offset<", Cat(GenTypeFlatbuffersElem(type), ">"))
      [] type.base_type = "STRUCT" ->
            GenTypeFlatbuffersOffsetDef(StructAt(type.struct_def))
      [] OTHER -> Abort

GenTypeOffsetDef(def) == GenTypeInternalDef(def) \o "Offset"

GenTypeOffset(type) ==
    IF type.base_type \in {"STRING", "VECTOR", "STRUCT"}
    THEN Cat(GenTypeInternal(type), "Offset")
    ELSE Abort

GenTypeRefDef(def) == GenTypeInternalDef(def) \o "Ref"

GenTypeRef(type) ==
    IF type.base_type \in {"STRING", "VECTOR", "STRUCT"}
    THEN Cat(GenTypeInternal(type), "Ref")
    ELSE Abort

\* GenTypeForGet with the unsupported branches falling back to a name.
GenTypeForGetWithDefault(type) ==
    CASE type.base_type \in ScalarTypes -> ScalarC(type.base_type)
      [] type.base_type = "STRING" -> "NSString *"
      [] type.base_type = "VECTOR" -> GenTypeRef(type)
      [] type.base_type = "STRUCT" -> GenTypeRefDef(StructAt(type.struct_def))
      [] OTHER -> "uint8_t"

GenTypeForGet(type) ==
    CASE type.base_type \in ScalarTypes -> ScalarC(type.base_type)
      [] type.base_type = "STRING" -> "NSString *"
      [] type.base_type = "VECTOR" -> GenTypeRef(type)
      [] type.base_type = "STRUCT" -> GenTypeRefDef(StructAt(type.struct_def))
      [] OTHER -> Abort

GenTypeForSetDef(def) ==
    IF def.fixed THEN "const " \o GenTypeInternalDef(def) \o " *"
    ELSE GenTypeOffsetDef(def)

GenTypeForSet(type) ==
    CASE type.base_type \in ScalarTypes -> ScalarC(type.base_type)
      [] type.base_type = "STRING" -> "FlatBufferStringOffset"
      [] type.base_type = "VECTOR" -> GenTypeOffset(type)
      [] type.base_type = "STRUCT" -> GenTypeForSetDef(StructAt(type.struct_def))
      [] OTHER -> Abort

GenTypeForKey(type) ==
    CASE type.base_type \in ScalarTypes -> ScalarC(type.base_type)
      [] type.base_type = "STRING" -> "NSString *"
      [] OTHER -> Abort

\* The expression an accessor returns, built from the local `value`: its
\* form and what it reads.  The STRING form calls members through `value`.
GenTypeCastGet(type) ==
    CASE type.base_type \in ScalarTypes ->
            [form |-> "value", reads |-> <<"value">>]
      [] type.base_type = "STRING" ->
            [form |-> "NSString initWithBytesNoCopy",
             reads |-> <<"value->c_str()", "value->Length()">>]
      [] type.base_type \in {"VECTOR", "STRUCT"} ->
            [form |-> "{ .buf = value }", reads |-> <<"value">>]
      [] OTHER -> [form |-> Abort, reads |-> <<>>]

GenTypeCastKey(type) ==
    CASE type.base_type \in ScalarTypes -> "key"
      [] type.base_type = "STRING" -> "key.UTF8String ?: \"\""
      [] OTHER -> Abort

----------------------------------------------------------------------------
(* Identifiers whose first letter changes case.  ToUpper/ToLower act on    *)
(* the first character only; the table lists the first-letter variants of  *)
(* the identifiers the schemas below use.                                  *)

ToUpperFirst(s) ==
    CASE s = "id" -> "Id"
      [] s = "items" -> "Items"
      [] s = "default" -> "Default"
      [] s = "default_" -> "Default_"
      [] s = "pos" -> "Pos"
      [] s = "x" -> "X"
      [] s = "y" -> "Y"
      [] s = "u" -> "U"
      [] s = "u_type" -> "U_type"
      [] s = "us" -> "Us"
      [] s = "us_type" -> "Us_type"
      [] s = "arr" -> "Arr"
      [] OTHER -> s

ToLowerFirst(s) ==
    CASE s = "Name" -> "name"
      [] OTHER -> s

\* result = EscapeKeyword(name); result[0] = first ? ToUpper(name[0])
\*                                                 : ToLower(result[0]).
\* name and EscapeKeyword(name) start with the same character.
SelectorComponentName(name, first) ==
    IF first THEN ToUpperFirst(EscapeKeyword(name))
    ELSE ToLowerFirst(EscapeKeyword(name))

SelectorArgumentName(name) == ToLowerFirst(EscapeKeyword(name))

TemporaryArgumentName(name) == SelectorArgumentName(name) \o "__"

\* The expression passed to Create<Table> for one field: its form and the
\* identifiers it reads.
GenTypeCastSet(type, name) ==
    CASE type.base_type \in ScalarTypes ->
            [form |-> "value", reads |-> <<EscapeKeyword(name)>>]
      [] type.base_type \in {"STRING", "VECTOR"} ->
            [form |-> "offset", reads |-> <<EscapeKeyword(name)>>]
      [] type.base_type = "STRUCT" ->
            IF StructAt(type.struct_def).fixed
            THEN [form |-> "address",
                  reads |-> <<SelectorArgumentName(name),
                              TemporaryArgumentName(name)>>]
            ELSE [form |-> "offset", reads |-> <<EscapeKeyword(name)>>]
      [] OTHER -> [form |-> Abort, reads |-> <<>>]

RECURSIVE TemporaryMembers(_, _, _)
TemporaryMembers(struct_def, name, j) ==
    IF j > Len(struct_def.fields) THEN <<>>
    ELSE (IF struct_def.fields[j].deprecated THEN <<>>
          ELSE <<[object |-> name, member |-> Name(struct_def.fields[j])]>>)
         \o TemporaryMembers(struct_def, name, j + 1)

\* "auto <tmp> = <arg> ? <Struct>(<name>-><member>, ...) : <Struct>();"
GenTemporaryStruct(struct_def, name) ==
    [temp |-> TemporaryArgumentName(name),
     test |-> SelectorArgumentName(name),
     ctor |-> GenTypeFlatbuffersDef(struct_def),
     members |-> TemporaryMembers(struct_def, name, 1)]

GenParamSwift(field, first) ==
    [component |-> SelectorComponentName(field.name, first),
     type |-> GenTypeForSet(field.type),
     argument |-> SelectorArgumentName(field.name),
     field |-> field.name]

RECURSIVE SelectorParams(_, _, _)
SelectorParams(struct_def, j, first) ==
    IF j > Len(struct_def.fields) THEN <<>>
    ELSE IF struct_def.fields[j].deprecated
         THEN SelectorParams(struct_def, j + 1, first)
         ELSE <<GenParamSwift(struct_def.fields[j], first)>>
              \o SelectorParams(struct_def, j + 1, FALSE)

GenCreateSelector(struct_def) ==
    [method |-> "make" \o GenTypeInternalDef(struct_def) \o "With",
     params |-> SelectorParams(struct_def, 1, TRUE)]

SelectorAborts(sel) == \E k \in 1..Len(sel.params) : sel.params[k].type = Abort

----------------------------------------------------------------------------
(* CodeWriter: the lines appended so far and the substitution values.  A   *)
(* line is kept as a record of its kind and of the values substituted into *)
(* it; sd and arr tell which StructDef or array entry the generator was    *)
(* emitting for.                                                           *)

Unset == "<unset>"

StringKeys ==
    {"REF_NAME", "OFFSET_NAME", "STRUCT_NAME", "FIELD_NAME", "FIELD_TYPE",
     "FLATBUF_NAME", "ELEMENT_NAME", "ELEMENT_OFFSET", "ELEMENT_FLATBUF",
     "KEY_TYPE", "KEY_CAST", "CREATE_NAME", "INTERNAL_NAME"}

NoValues ==
    [k \in StringKeys |-> Unset] @@
    ("SELECTOR_DECL" :> [method |-> Unset, params |-> <<>>]) @@
    ("FIELD_CAST" :> [form |-> Unset, reads |-> <<>>])

EmptyWriter == [lines |-> <<>>, vals |-> NoValues]

\* CodeWriter::Clear() empties the stream and keeps the value map.
Clear(w) == [w EXCEPT !.lines = <<>>]

Text(t) == [kind |-> "text", sd |-> 0, arr |-> "", text |-> t]

\* W is the pair of writers inside one call of a Gen function, with the flag
\* of an abort() reached while computing a value.
SetH(W, k, v) ==
    IF W.aborted \/ v = Abort THEN [W EXCEPT !.aborted = TRUE]
    ELSE [W EXCEPT !.h.vals[k] = v]

SetMM(W, k, v) ==
    IF W.aborted \/ v = Abort THEN [W EXCEPT !.aborted = TRUE]
    ELSE [W EXCEPT !.mm.vals[k] = v]

\* SetValue of a value that is an expression or a selector.
SetCastMM(W, v) ==
    IF W.aborted \/ v.form = Abort THEN [W EXCEPT !.aborted = TRUE]
    ELSE [W EXCEPT !.mm.vals["FIELD_CAST"] = v]

SetSelectorH(W, v) ==
    IF W.aborted \/ SelectorAborts(v) THEN [W EXCEPT !.aborted = TRUE]
    ELSE [W EXCEPT !.h.vals["SELECTOR_DECL"] = v]

SetSelectorMM(W, v) ==
    IF W.aborted \/ SelectorAborts(v) THEN [W EXCEPT !.aborted = TRUE]
    ELSE [W EXCEPT !.mm.vals["SELECTOR_DECL"] = v]

AddH(W, line) ==
    IF W.aborted THEN W ELSE [W EXCEPT !.h.lines = Append(@, line)]

AddMM(W, line) ==
    IF W.aborted THEN W ELSE [W EXCEPT !.mm.lines = Append(@, line)]

----------------------------------------------------------------------------
(* The lines the Gen functions append: each `code += "...{{KEY}}..."` of   *)
(* the source is one operator that reads the substitution values the       *)
(* writer holds at that moment.                                            *)

LineH(W, kind, i, key, keys) ==
    AddH(W, [kind |-> kind, sd |-> i, arr |-> key,
             subst |-> [k \in keys |-> W.h.vals[k]]])

LineMM(W, kind, i, key, keys) ==
    AddMM(W, [kind |-> kind, sd |-> i, arr |-> key,
              subst |-> [k \in keys |-> W.mm.vals[k]]])

\* A line emitted for field j of struct i.
FieldLineH(W, kind, i, j, keys) ==
    AddH(W, [kind |-> kind, sd |-> i, arr |-> "", field |-> j,
             subst |-> [k \in keys |-> W.h.vals[k]]])

FieldLineMM(W, kind, i, j, keys) ==
    AddMM(W, [kind |-> kind, sd |-> i, arr |-> "", field |-> j,
              subst |-> [k \in keys |-> W.mm.vals[k]]])

BlankH(W) == AddH(W, Text(""))

BlankMM(W) == AddMM(W, Text(""))

----------------------------------------------------------------------------
(* The Gen functions.  Each takes the writers W and returns them after the *)
(* function's SetValue and += statements, in the order of the source.      *)

RECURSIVE StructMembers(_, _, _)
StructMembers(W, i, j) ==
    IF j > Len(StructAt(i).fields) THEN W
    ELSE LET field == StructAt(i).fields[j]
             W1 == SetH(W, "FIELD_NAME", Name(field))
             W2 == SetH(W1, "FIELD_TYPE", GenTypeForGet(field.type))
             W3 == FieldLineH(W2, "member", i, j, {"FIELD_TYPE", "FIELD_NAME"})
         IN  StructMembers(W3, i, j + 1)

GenStructBody(W, i) ==
    LET W1 == SetH(W, "STRUCT_NAME", GenTypeInternalDef(StructAt(i)))
        W2 == LineH(W1, "struct_open", i, "", {"STRUCT_NAME"})
        W3 == StructMembers(W2, i, 1)
        W4 == LineH(W3, "struct_close", i, "", {"STRUCT_NAME"})
    IN  BlankH(W4)

\* Lines 319-323: code_h_ += text + "\\", the comment text going through the
\* writer's {{KEY}} substitution like any other line.  A key with no value
\* fails the writer's assertion; without assertions the key itself is
\* written.  No comment, no text.
GenComment(W, i, dc) ==
    IF dc = <<>> THEN W
    ELSE AddH(W, [kind |-> "comment", sd |-> i, arr |-> "",
                  missing |-> W.h.vals["REF_NAME"] = Unset,
                  text |-> IF W.h.vals["REF_NAME"] = Unset THEN "/// REF_NAME"
                           ELSE "/// " \o W.h.vals["REF_NAME"]])

GenStructDecl(W, i) ==
    LET struct_def == StructAt(i)
        W0 == GenComment(W, i, struct_def.doc_comment)
        W1 == SetH(W0, "REF_NAME", GenTypeRefDef(struct_def))
        W2 == SetH(W1, "OFFSET_NAME", GenTypeOffsetDef(struct_def))
        W3 == IF struct_def.fixed THEN GenStructBody(W2, i) ELSE W2
        W4 == LineH(W3, "ref_typedef", i, "", {"REF_NAME"})
        W5 == LineH(W4, "offset_typedef", i, "", {"OFFSET_NAME"})
    IN  BlankH(W5)

RECURSIVE StructFieldAccessors(_, _, _)
StructFieldAccessors(W, i, j) ==
    IF j > Len(StructAt(i).fields) THEN W
    ELSE LET field == StructAt(i).fields[j]
             W1 == SetH(W, "FIELD_NAME", Name(field))
             W2 == SetH(W1, "FIELD_TYPE", GenTypeForGet(field.type))
             W3 == SetMM(W2, "FIELD_NAME", Name(field))
             W4 == SetMM(W3, "FIELD_TYPE", GenTypeForGet(field.type))
             W5 == SetCastMM(W4, GenTypeCastGet(field.type))
             W6 == FieldLineH(W5, "accessor", i, j,
                              {"FIELD_TYPE", "REF_NAME", "FIELD_NAME"})
             W7 == FieldLineMM(W6, "accessor", i, j,
                               {"FIELD_TYPE", "REF_NAME", "FIELD_NAME",
                                "FLATBUF_NAME", "FIELD_CAST"})
         IN  StructFieldAccessors(BlankMM(W7), i, j + 1)

GenStructFields(W, i) ==
    LET struct_def == StructAt(i)
        W1 == SetH(W, "REF_NAME", GenTypeRefDef(struct_def))
        W2 == SetMM(W1, "REF_NAME", GenTypeRefDef(struct_def))
        W3 == SetMM(W2, "FLATBUF_NAME", GenTypeFlatbuffersDef(struct_def))
    IN  BlankH(StructFieldAccessors(W3, i, 1))

\* An entry of the arrays map is [key, type].
GenArrayDecl(W, entry) ==
    LET type == entry.type
        W1 == SetH(W, "REF_NAME", GenTypeRef(type))
        W2 == SetH(W1, "OFFSET_NAME", GenTypeOffset(type))
        W3 == LineH(W2, "ref_typedef", 0, entry.key, {"REF_NAME"})
        W4 == LineH(W3, "offset_typedef", 0, entry.key, {"OFFSET_NAME"})
    IN  BlankH(W4)

\* The first field of the element struct that carries the key flag (0: none).
FirstKeyField(struct_def) ==
    IF \E j \in 1..Len(struct_def.fields) : struct_def.fields[j].key
    THEN CHOOSE j \in 1..Len(struct_def.fields) :
            /\ struct_def.fields[j].key
            /\ \A k \in 1..(j - 1) : ~struct_def.fields[k].key
    ELSE 0

ElementHasKey(type) ==
    /\ VectorType(type).base_type = "STRUCT"
    /\ StructAt(VectorType(type).struct_def).has_key

\* The lookup emitted with whatever KEY_TYPE and KEY_CAST the writers hold.
GenArrayLookupKeepingKey(W, entry) ==
    LET W1 == SetCastMM(W, GenTypeCastGet(VectorType(entry.type)))
        W3 == LineH(W1, "array_lookup", 0, entry.key,
                    {"ELEMENT_NAME", "REF_NAME", "KEY_TYPE"})
        W4 == LineMM(W3, "array_lookup", 0, entry.key,
                     {"ELEMENT_NAME", "REF_NAME", "KEY_TYPE", "ELEMENT_FLATBUF",
                      "KEY_CAST", "FIELD_CAST"})
    IN  BlankMM(W4)

\* Lines 997-1016: the lookup, with KEY_TYPE and KEY_CAST set from the first
\* key field when there is one.
GenArrayLookup(W, entry) ==
    LET elem == VectorType(entry.type)
        struct_def == StructAt(elem.struct_def)
        k == FirstKeyField(struct_def)
        W1 == SetCastMM(W, GenTypeCastGet(elem))
        W2 == IF k = 0 THEN W1
              ELSE SetMM(SetMM(SetH(W1, "KEY_TYPE",
                                    GenTypeForKey(struct_def.fields[k].type)),
                               "KEY_TYPE", GenTypeForKey(struct_def.fields[k].type)),
                         "KEY_CAST", GenTypeCastKey(struct_def.fields[k].type))
        W3 == LineH(W2, "array_lookup", 0, entry.key,
                    {"ELEMENT_NAME", "REF_NAME", "KEY_TYPE"})
        W4 == LineMM(W3, "array_lookup", 0, entry.key,
                     {"ELEMENT_NAME", "REF_NAME", "KEY_TYPE", "ELEMENT_FLATBUF",
                      "KEY_CAST", "FIELD_CAST"})
    IN  BlankMM(W4)

\* Every entry of the arrays map has a struct element: a union element aborts
\* while the map is filled, and a vector never has a vector element.
GenArrayFields(W, entry) ==
    LET type == entry.type
        elem == VectorType(type)
        W1 == SetH(W, "REF_NAME", GenTypeRef(type))
        W2 == SetH(W1, "OFFSET_NAME", GenTypeOffset(type))
        W3 == SetH(W2, "ELEMENT_NAME", GenTypeRef(elem))
        W4 == SetMM(W3, "REF_NAME", GenTypeRef(type))
        W5 == SetMM(W4, "ELEMENT_NAME", GenTypeForGet(elem))
        W6 == SetMM(W5, "ELEMENT_FLATBUF",
                    IF elem.struct_def = 0 THEN Abort
                    ELSE GenTypeFlatbuffersDef(StructAt(elem.struct_def)))
        W7 == LineH(W6, "array_count", 0, entry.key, {"REF_NAME"})
        W8 == LineH(W7, "array_subscript", 0, entry.key, {"ELEMENT_NAME", "REF_NAME"})
        W9 == BlankMM(LineMM(W8, "array_count", 0, entry.key,
                             {"REF_NAME", "ELEMENT_FLATBUF"}))
        W10 == BlankMM(LineMM(W9, "array_subscript", 0, entry.key,
                              {"ELEMENT_NAME", "REF_NAME", "ELEMENT_FLATBUF"}))
        W11 == IF ElementHasKey(type) THEN GenArrayLookup(W10, entry) ELSE W10
    IN  BlankH(W11)

\* Lines 860-866, the temporaries of the fixed-struct fields.
RECURSIVE BuilderTemporaries(_, _, _)
BuilderTemporaries(W, i, j) ==
    IF j > Len(StructAt(i).fields) THEN W
    ELSE LET field == StructAt(i).fields[j]
             W1 == IF /\ ~field.deprecated
                      /\ field.type.base_type = "STRUCT"
                      /\ StructAt(field.type.struct_def).fixed
                   THEN AddMM(W, [kind |-> "builder_temporary", sd |-> i, arr |-> "",
                                  field |-> j,
                                  temporary |-> GenTemporaryStruct(
                                      StructAt(field.type.struct_def), field.name)])
                   ELSE W
         IN  BuilderTemporaries(W1, i, j + 1)

\* The argument loop passing every field, deprecated or not.
RECURSIVE BuilderArgumentsOfAll(_, _, _)
BuilderArgumentsOfAll(W, i, j) ==
    IF j > Len(StructAt(i).fields) THEN W
    ELSE LET field == StructAt(i).fields[j]
         IN  BuilderArgumentsOfAll(
                FieldLineMM(SetCastMM(W, GenTypeCastSet(field.type, field.name)),
                            "builder_argument", i, j, {"FIELD_CAST"}),
                i, j + 1)

\* Lines 868-875, the "    , {{FIELD_CAST}}" lines.
RECURSIVE BuilderArguments(_, _, _)
BuilderArguments(W, i, j) ==
    IF j > Len(StructAt(i).fields) THEN W
    ELSE LET field == StructAt(i).fields[j]
             W1 == IF field.deprecated THEN W
                   ELSE FieldLineMM(SetCastMM(W, GenTypeCastSet(field.type, field.name)),
                                    "builder_argument", i, j, {"FIELD_CAST"})
         IN  BuilderArguments(W1, i, j + 1)

GenBuilders(W, i) ==
    LET struct_def == StructAt(i)
        W1 == SetH(W, "OFFSET_NAME", GenTypeOffsetDef(struct_def))
        W2 == SetMM(W1, "OFFSET_NAME", GenTypeOffsetDef(struct_def))
        W3 == SetMM(W2, "CREATE_NAME",
                    struct_def.defined_namespace \o "::" \o "Create" \o Name(struct_def))
        W4 == SetSelectorH(W3, GenCreateSelector(struct_def))
        W5 == LineH(W4, "builder", i, "", {"OFFSET_NAME", "SELECTOR_DECL"})
        W6 == SetSelectorMM(W5, GenCreateSelector(struct_def))
        W7 == LineMM(W6, "builder", i, "", {"OFFSET_NAME", "SELECTOR_DECL"})
        W8 == BuilderTemporaries(W7, i, 1)
        W9 == LineMM(W8, "builder_create", i, "", {"CREATE_NAME"})
        W10 == BuilderArguments(W9, i, 1)
        W11 == LineMM(W10, "builder_close", i, "", {})
    IN  BlankMM(W11)

GenArraySortedBuilder(W, entry) ==
    LET W1 == LineH(W, "array_sorted_builder", 0, entry.key,
                    {"OFFSET_NAME", "ELEMENT_NAME", "ELEMENT_OFFSET"})
        W2 == LineMM(W1, "array_sorted_builder", 0, entry.key,
                     {"OFFSET_NAME", "ELEMENT_NAME", "ELEMENT_OFFSET",
                      "ELEMENT_FLATBUF"})
    IN  BlankMM(W2)

\* GenArrayBuilders emitting the sorted builder for every array type.
GenArrayBuildersAlwaysSorted(W, entry) ==
    LET type == entry.type
        elem == VectorType(type)
        W1 == SetH(W, "OFFSET_NAME", GenTypeOffset(type))
        W2 == SetH(W1, "ELEMENT_NAME", GenTypeInternal(elem))
        W3 == SetH(W2, "ELEMENT_OFFSET", GenTypeOffset(elem))
        W4 == SetMM(W3, "OFFSET_NAME", GenTypeOffset(type))
        W5 == SetMM(W4, "ELEMENT_NAME", GenTypeInternal(elem))
        W6 == SetMM(W5, "ELEMENT_OFFSET", GenTypeOffset(elem))
        W7 == SetMM(W6, "ELEMENT_FLATBUF", GenTypeFlatbuffersOffset(elem))
        W8 == LineH(W7, "array_builder", 0, entry.key,
                    {"OFFSET_NAME", "ELEMENT_NAME", "ELEMENT_OFFSET"})
        W9 == BlankMM(LineMM(W8, "array_builder", 0, entry.key,
                             {"OFFSET_NAME", "ELEMENT_NAME", "ELEMENT_OFFSET",
                              "ELEMENT_FLATBUF"}))
    IN  GenArraySortedBuilder(W9, entry)

GenArrayBuilders(W, entry) ==
    LET type == entry.type
        elem == VectorType(type)
        W1 == SetH(W, "OFFSET_NAME", GenTypeOffset(type))
        W2 == SetH(W1, "ELEMENT_NAME", GenTypeInternal(elem))
        W3 == SetH(W2, "ELEMENT_OFFSET", GenTypeOffset(elem))
        W4 == SetMM(W3, "OFFSET_NAME", GenTypeOffset(type))
        W5 == SetMM(W4, "ELEMENT_NAME", GenTypeInternal(elem))
        W6 == SetMM(W5, "ELEMENT_OFFSET", GenTypeOffset(elem))
        W7 == SetMM(W6, "ELEMENT_FLATBUF", GenTypeFlatbuffersOffset(elem))
        W8 == LineH(W7, "array_builder", 0, entry.key,
                    {"OFFSET_NAME", "ELEMENT_NAME", "ELEMENT_OFFSET"})
        W9 == BlankMM(LineMM(W8, "array_builder", 0, entry.key,
                             {"OFFSET_NAME", "ELEMENT_NAME", "ELEMENT_OFFSET",
                              "ELEMENT_FLATBUF"}))
    IN  IF ElementHasKey(type) THEN GenArraySortedBuilder(W9, entry) ELSE W9

GenFinish(W, i) ==
    LET struct_def == StructAt(i)
        W1 == SetH(W, "REF_NAME", GenTypeRefDef(struct_def))
        W2 == SetH(W1, "INTERNAL_NAME", GenTypeInternalDef(struct_def))
        W3 == SetH(W2, "OFFSET_NAME", GenTypeOffsetDef(struct_def))
        W4 == SetMM(W3, "REF_NAME", GenTypeRefDef(struct_def))
        W5 == SetMM(W4, "INTERNAL_NAME", GenTypeInternalDef(struct_def))
        W6 == SetMM(W5, "OFFSET_NAME", GenTypeOffsetDef(struct_def))
        W7 == SetMM(W6, "FLATBUF_NAME", GenTypeFlatbuffersDef(struct_def))
        W8 == LineH(W7, "finish", i, "", {"INTERNAL_NAME", "OFFSET_NAME"})
        W9 == LineMM(W8, "finish", i, "", {"INTERNAL_NAME", "OFFSET_NAME",
                                           "FLATBUF_NAME"})
    IN  BlankMM(W9)

----------------------------------------------------------------------------
(* std::map<std::string, Type> arrays: a sequence of [key, type] entries   *)
(* in increasing key order, which is the order begin()..end() visits.      *)

\* std::less<std::string> on the keys the schemas below produce.
SortedArrayKeys == <<"BarArray", "FooArray">>

LexRank(key) == CHOOSE r \in 1..Len(SortedArrayKeys) : SortedArrayKeys[r] = key

\* arrays[key] = type: overwrite the entry of an equal key, else insert.
MapPut(m, key, type) ==
    IF \E e \in 1..Len(m) : m[e].key = key
    THEN [e \in 1..Len(m) |->
            IF m[e].key = key THEN [key |-> key, type |-> type] ELSE m[e]]
    ELSE LET before == SelectSeq(m, LAMBDA x : LexRank(x.key) < LexRank(key))
             after  == SelectSeq(m, LAMBDA x : LexRank(x.key) > LexRank(key))
         IN  before \o <<[key |-> key, type |-> type]>> \o after

\* The struct list visited from its end.
StructsInReverse == [k \in 1..NumStructs |-> NumStructs + 1 - k]

\* The order in which a loop over parser_.structs_.vec visits the structs.
StructsInOrder == [k \in 1..NumStructs |-> k]

\* The body of the loop over one struct's fields (lines 212-224).  A is
\* [aborted, map].
RECURSIVE CollectFields(_, _, _)
CollectFields(A, i, j) ==
    IF A.aborted \/ j > Len(StructAt(i).fields) THEN A
    ELSE LET type == StructAt(i).fields[j].type
             hit  == /\ type.base_type = "VECTOR"
                     /\ VectorType(type).base_type \in {"VECTOR", "STRUCT", "UNION"}
             A1   == IF ~hit THEN A
                     ELSE IF GenTypeInternal(type) = Abort
                          THEN [A EXCEPT !.aborted = TRUE]
                          ELSE [A EXCEPT !.map = MapPut(@, GenTypeInternal(type), type)]
         IN  CollectFields(A1, i, j + 1)

RECURSIVE CollectArrays(_, _)
CollectArrays(A, k) ==
    IF k > NumStructs THEN A
    ELSE CollectArrays(CollectFields(A, StructsInOrder[k], 1), k + 1)

RECURSIVE StructDeclLoop(_, _)
StructDeclLoop(W, k) ==
    IF k > NumStructs THEN W
    ELSE LET i == StructsInOrder[k]
         IN  StructDeclLoop(IF ~StructAt(i).generated THEN GenStructDecl(W, i) ELSE W,
                            k + 1)

RECURSIVE StructFieldsLoop(_, _)
StructFieldsLoop(W, k) ==
    IF k > NumStructs THEN W
    ELSE LET i == StructsInOrder[k]
         IN  StructFieldsLoop(IF ~StructAt(i).generated THEN GenStructFields(W, i) ELSE W,
                              k + 1)

\* The builders loop without the test of the generated flag.
RECURSIVE BuildersLoopOfAll(_, _)
BuildersLoopOfAll(W, k) ==
    IF k > NumStructs THEN W
    ELSE LET i == StructsInOrder[k]
         IN  BuildersLoopOfAll(IF ~StructAt(i).fixed THEN GenBuilders(W, i) ELSE W,
                               k + 1)

RECURSIVE BuildersLoop(_, _)
BuildersLoop(W, k) ==
    IF k > NumStructs THEN W
    ELSE LET i == StructsInOrder[k]
         IN  BuildersLoop(IF ~StructAt(i).generated /\ ~StructAt(i).fixed
                          THEN GenBuilders(W, i) ELSE W,
                          k + 1)

RECURSIVE ArrayDeclLoop(_, _)
ArrayDeclLoop(W, e) ==
    IF e > Len(arrays) THEN W ELSE ArrayDeclLoop(GenArrayDecl(W, arrays[e]), e + 1)

RECURSIVE ArrayFieldsLoop(_, _)
ArrayFieldsLoop(W, e) ==
    IF e > Len(arrays) THEN W ELSE ArrayFieldsLoop(GenArrayFields(W, arrays[e]), e + 1)

RECURSIVE ArrayBuildersLoop(_, _)
ArrayBuildersLoop(W, e) ==
    IF e > Len(arrays) THEN W ELSE ArrayBuildersLoop(GenArrayBuilders(W, arrays[e]), e + 1)

----------------------------------------------------------------------------
(* The schemas the parser hands over: 1..MaxStructs StructDefs, each of    *)
(* one of the shapes below, with a short name of NamePool in a namespace   *)
(* of its own, so that qualified names are distinct while short names may  *)
(* coincide.  A struct reference of struct i points at the next struct of  *)
(* the list (cyclically), which gives self references, cycles, forward and *)
(* backward references.  The parser's own rules are kept: has_key is set   *)
(* exactly when a field carries key, a key field is a scalar or a string,  *)
(* a fixed struct holds scalars and arrays only, a union or vector-of-union *)
(* field comes with its type field, and the root is a table.               *)

NamePool == {"Foo", "Bar"}

NamespaceNames == <<"A", "B", "C", "D">>

NamespaceOf(i) == IF i <= Len(NamespaceNames) THEN NamespaceNames[i] ELSE "Z"

Scalar(b) == MkType(b, "NONE", 0)

ShapeIds ==
    {"keyed_table", "vector_table", "ref_table", "fixed_struct", "union_table",
     "array_struct", "union_vector_table", "struct_keyed_table",
     "documented_table"}

\* The documentation comment of a struct: a comment may hold any text, the
\* text "{{REF_NAME}}" included.
ShapeDoc(shape) ==
    IF shape = "documented_table" THEN <<"{{REF_NAME}}">> ELSE <<>>

ShapeFixed(shape) == shape \in {"fixed_struct", "array_struct"}

ShapeFields(shape, next) ==
    CASE shape = "keyed_table" ->
            <<MkField("id", Scalar("INT"), FALSE, TRUE),
              MkField("Name", Scalar("STRING"), FALSE, FALSE)>>
      [] shape = "vector_table" ->
            <<MkField("items", MkType("VECTOR", "STRUCT", next), FALSE, FALSE),
              MkField("default", Scalar("INT"), TRUE, FALSE)>>
      [] shape = "ref_table" ->
            <<MkField("pos", MkType("STRUCT", "NONE", next), FALSE, FALSE)>>
      [] shape = "documented_table" ->
            <<MkField("id", Scalar("INT"), FALSE, FALSE)>>
      [] shape = "struct_keyed_table" ->
            <<MkField("pos", MkType("STRUCT", "NONE", next), FALSE, TRUE)>>
      [] shape = "fixed_struct" ->
            <<MkField("x", Scalar("INT"), FALSE, TRUE),
              MkField("y", Scalar("FLOAT"), FALSE, FALSE)>>
      [] shape = "union_table" ->
            <<MkField("u_type", Scalar("UTYPE"), FALSE, FALSE),
              MkField("u", Scalar("UNION"), FALSE, FALSE)>>
      [] shape = "array_struct" ->
            <<MkField("arr", MkType("ARRAY", "INT", 0), FALSE, FALSE)>>
      [] shape = "union_vector_table" ->
            <<MkField("us_type", MkType("VECTOR", "UTYPE", 0), FALSE, FALSE),
              MkField("us", MkType("VECTOR", "UNION", 0), FALSE, FALSE)>>

\* A generated struct is skipped whatever it holds, except for its vector
\* fields, which still reach the arrays map: the shapes below are the ones a
\* generated struct takes.
GeneratedShapeIds ==
    {"keyed_table", "vector_table", "fixed_struct", "union_vector_table"}

Descriptors ==
    [name : NamePool, generated : {FALSE}, shape : ShapeIds]
    \cup [name : NamePool, generated : {TRUE}, shape : GeneratedShapeIds]

MkStructDef(d, i, n) ==
    LET fields == ShapeFields(d.shape, (i % n) + 1)
    IN  [name |-> d.name,
         defined_namespace |-> NamespaceOf(i),
         fixed |-> ShapeFixed(d.shape),
         generated |-> d.generated,
         has_key |-> \E j \in 1..Len(fields) : fields[j].key,
         doc_comment |-> ShapeDoc(d.shape),
         fields |-> fields]

NoFile == [exists |-> FALSE, lines |-> <<>>]

NoResult == [call |-> "none", outcome |-> "none", field_set |-> TRUE]

SchemasOf(n) ==
    UNION {
      { [structs_ |-> [i \in 1..n |-> MkStructDef(d[i], i, n)], root_struct_def_ |-> r] :
          r \in {0} \cup {i \in 1..n : ~ShapeFixed(d[i].shape)} } :
      d \in [1..n -> Descriptors] }

Schemas == UNION {SchemasOf(n) : n \in 1..MaxStructs}

Init ==
    /\ parser \in Schemas
    /\ pc = "idle"
    /\ arrays = <<>>
    /\ code_h_ = EmptyWriter
    /\ code_mm_ = EmptyWriter
    /\ files = [f \in {"h", "mm", "swift"} |-> NoFile]
    /\ ret = "none"
    /\ fbb = [finished |-> FALSE, buf |-> <<>>]
    /\ result = NoResult

----------------------------------------------------------------------------
(* generate(), one action per stretch of it.                               *)

Writers == [h |-> code_h_, mm |-> code_mm_, aborted |-> FALSE]

\* Lines 191-205: both writers cleared, then the prologues of the two files.
Prologue(W) ==
    LET H  == [W EXCEPT !.h = Clear(@), !.mm = Clear(@)]
        H1 == AddH(H, Text("// automatically generated by the FlatBuffers compiler, do not modify"))
        H2 == AddH(AddH(H1, Text("#ifndef <include_guard>")),
                   Text("#define <include_guard>"))
        H3 == AddH(AddH(BlankH(H2), Text("#import \"flatbuffers_swift.h\"")), Text(""))
        M1 == AddMM(H3, Text("// automatically generated by the FlatBuffers compiler, do not modify"))
        M2 == AddMM(AddMM(M1, Text("#import \"<file_name>_generated.h\"")),
                    Text("#import \"<file_name>_swift_generated.h\""))
    IN  BlankMM(M2)

\* Lines 252-260: the array accessors, then the category is opened.
ArrayFieldsAndInterface(W) ==
    LET W1 == ArrayFieldsLoop(W, 1)
        W2 == AddH(W1, Text("@interface FlatBufferBuilder (XXX)"))
    IN  BlankMM(AddMM(W2, Text("@implementation FlatBufferBuilder (XXX)")))

\* Lines 276-286: the finish method of the root, then the epilogues.
FinishAndEpilogue(W) ==
    LET W1 == IF parser.root_struct_def_ # 0
              THEN GenFinish(W, parser.root_struct_def_)
              ELSE W
        W2 == BlankH(AddH(W1, Text("@end")))
        W3 == BlankMM(AddMM(W2, Text("@end")))
    IN  AddH(W3, Text("#endif  // <include_guard>"))

\* What a stretch leaves behind: the writers and the next position, or the
\* process ended by abort().
Commit(W, next) ==
    IF W.aborted
    THEN pc' = "aborted" /\ UNCHANGED <<code_h_, code_mm_>>
    ELSE pc' = next /\ code_h_' = W.h /\ code_mm_' = W.mm

\* FLATBUFFERS_ASSERT in CodeWriter::operator+= for a key without value.
AssertFails(W) ==
    /\ ~W.aborted
    /\ \E p \in 1..Len(W.h.lines) :
          W.h.lines[p].kind = "comment" /\ W.h.lines[p].missing

\* A stretch that writes comments: with assertions compiled in, a key
\* without value ends the process.
CommitChecked(W, next) ==
    \/ Commit(W, next)
    \/ AssertFails(W) /\ pc' = "aborted" /\ UNCHANGED <<code_h_, code_mm_>>

\* Lines 191-225.  generate() may be called again once it has returned.
Begin ==
    /\ pc \in {"idle", "returned"}
    /\ LET A == CollectArrays([aborted |-> FALSE, map |-> <<>>], 1)
       IN  /\ arrays' = A.map
           /\ Commit([Prologue(Writers) EXCEPT !.aborted = A.aborted], "struct_decls")
    /\ ret' = "none"
    /\ UNCHANGED <<parser, files, fbb, result>>

\* The declarations pass marking each struct it emits as generated.
StructDeclsMarking ==
    /\ pc = "struct_decls"
    /\ CommitChecked(StructDeclLoop(Writers, 1), "array_decls")
    /\ parser' = [parser EXCEPT !.structs_ =
                    [i \in 1..NumStructs |-> [StructAt(i) EXCEPT !.generated = TRUE]]]
    /\ UNCHANGED <<arrays, files, ret, fbb, result>>

\* Lines 229-235.
StructDecls ==
    /\ pc = "struct_decls"
    /\ CommitChecked(StructDeclLoop(Writers, 1), "array_decls")
    /\ UNCHANGED <<parser, arrays, files, ret, fbb, result>>

\* The array typedefs emitted only after the struct accessors.
ArrayDeclsAfterAccessors ==
    /\ pc = "array_decls"
    /\ Commit(ArrayDeclLoop(StructFieldsLoop(Writers, 1), 1), "array_fields")
    /\ UNCHANGED <<parser, arrays, files, ret, fbb, result>>

\* Lines 237-241.
ArrayDecls ==
    /\ pc = "array_decls"
    /\ Commit(ArrayDeclLoop(Writers, 1), "struct_fields")
    /\ UNCHANGED <<parser, arrays, files, ret, fbb, result>>

\* Lines 244-250.
StructFields ==
    /\ pc = "struct_fields"
    /\ Commit(StructFieldsLoop(Writers, 1), "array_fields")
    /\ UNCHANGED <<parser, arrays, files, ret, fbb, result>>

\* Lines 252-260.
ArrayFields ==
    /\ pc = "array_fields"
    /\ Commit(ArrayFieldsAndInterface(Writers), "builders")
    /\ UNCHANGED <<parser, arrays, files, ret, fbb, result>>

\* Lines 262-268.
Builders ==
    /\ pc = "builders"
    /\ Commit(BuildersLoop(Writers, 1), "array_builders")
    /\ UNCHANGED <<parser, arrays, files, ret, fbb, result>>

\* Lines 270-274.
ArrayBuilders ==
    /\ pc = "array_builders"
    /\ Commit(ArrayBuildersLoop(Writers, 1), "finish")
    /\ UNCHANGED <<parser, arrays, files, ret, fbb, result>>

\* Lines 276-293.
Finish ==
    /\ pc = "finish"
    /\ Commit(FinishAndEpilogue(Writers), "save_h")
    /\ UNCHANGED <<parser, arrays, files, ret, fbb, result>>

\* SaveFile(name, text, false): the file holds the text, or the file could
\* not be opened and is left as it was.
SaveFile(f, text, ok) ==
    IF ok THEN files' = [files EXCEPT ![f] = [exists |-> TRUE, lines |-> text]]
    ELSE UNCHANGED files

\* Lines 294-297: the && chain stops at the first save that fails.
SaveH ==
    /\ pc = "save_h"
    /\ \E ok \in BOOLEAN :
          /\ SaveFile("h", code_h_.lines, ok)
          /\ IF ok THEN pc' = "save_mm" /\ ret' = ret
             ELSE pc' = "returned" /\ ret' = "false"
    /\ UNCHANGED <<parser, arrays, code_h_, code_mm_, fbb, result>>

\* The && chain going on to the next file after a save that failed.
SaveMMContinuing ==
    /\ pc = "save_mm"
    /\ \E ok \in BOOLEAN :
          /\ SaveFile("mm", code_mm_.lines, ok)
          /\ pc' = "save_swift" /\ ret' = ret
    /\ UNCHANGED <<parser, arrays, code_h_, code_mm_, fbb, result>>

SaveMM ==
    /\ pc = "save_mm"
    /\ \E ok \in BOOLEAN :
          /\ SaveFile("mm", code_mm_.lines, ok)
          /\ IF ok THEN pc' = "save_swift" /\ ret' = ret
             ELSE pc' = "returned" /\ ret' = "false"
    /\ UNCHANGED <<parser, arrays, code_h_, code_mm_, fbb, result>>

\* code_swift_ is never appended to: its text is empty.
SaveSwift ==
    /\ pc = "save_swift"
    /\ \E ok \in BOOLEAN :
          /\ SaveFile("swift", <<>>, ok)
          /\ pc' = "returned"
          /\ ret' = IF ok THEN "true" ELSE "false"
    /\ UNCHANGED <<parser, arrays, code_h_, code_mm_, fbb, result>>

Next ==
    \/ Begin
    \/ StructDecls
    \/ ArrayDecls
    \/ StructFields
    \/ ArrayFields
    \/ Builders
    \/ ArrayBuilders
    \/ Finish
    \/ SaveH
    \/ SaveMM
    \/ SaveSwift

Spec == Init /\ [][Next]_vars

----------------------------------------------------------------------------
(* The emitted code at work.  The schemas are the ones whose text compiles *)
(* (generate() completes, all structs emitted, no identifier defined       *)
(* twice); the emitted methods are called once generate() returned true.   *)
(* FlatBufferBuilder and the generated C++ getters are the buffer runtime  *)
(* (flatbuffers/flatbuffers.h), taken from sections 4.2 and 4.3 of the     *)
(* specification.                                                          *)

UnsupportedType(type) ==
    \/ type.base_type \in {"UNION", "ARRAY"}
    \/ type.base_type = "VECTOR" /\ type.element = "UNION"

CompilableSchema(p) ==
    /\ \A i \in 1..Len(p.structs_) :
          /\ ~p.structs_[i].generated
          /\ \A j \in 1..Len(p.structs_[i].fields) :
                ~UnsupportedType(p.structs_[i].fields[j].type)
    /\ \A i, j \in 1..Len(p.structs_) :
          i # j => p.structs_[i].name # p.structs_[j].name

\* The generator is run on a schema whose text compiles.
InitRuntime == Init /\ CompilableSchema(parser)

\* The emitted code is compiled and linked once generate() has returned true.
Linked == pc = "returned" /\ ret = "true"

\* The positions of the method and function definitions of a kind in the
\* implementation file.
Emitted(kind) ==
    {p \in 1..Len(files["mm"].lines) : files["mm"].lines[p].kind = kind}

\* A builder mutator that takes no account of the buffer being finished.
FbbWriteUnchecked(b, obj) ==
    [fbb |-> [b EXCEPT !.buf = Append(@, obj)], outcome |-> "ok"]

\* A mutator of the builder (start_table .. end_table, create_vector,
\* create_sorted_vector): an error once the buffer is finished.
FbbWrite(b, obj) ==
    IF b.finished THEN [fbb |-> b, outcome |-> "BuilderStateError"]
    ELSE [fbb |-> [b EXCEPT !.buf = Append(@, obj)], outcome |-> "ok"]

\* finish(root_offset): writes the root offset and freezes the buffer.
FbbFinish(b, root) ==
    IF b.finished THEN [fbb |-> b, outcome |-> "BuilderStateError"]
    ELSE [fbb |-> [finished |-> TRUE, buf |-> Append(b.buf, root)], outcome |-> "ok"]

HasRoom == Linked /\ (fbb.finished \/ Len(fbb.buf) < MaxBuf)

Called(call, r) ==
    /\ fbb' = r.fbb
    /\ result' = [call |-> call, outcome |-> r.outcome, field_set |-> TRUE]
    /\ UNCHANGED <<parser, pc, arrays, code_h_, code_mm_, files, ret>>

\* make<Table>With...: "return { .offset = {{CREATE_NAME}}(*_fbb ... ).o };"
CallMakeTable ==
    /\ HasRoom
    /\ \E p \in Emitted("builder_create") :
          Called("make_table",
                 FbbWrite(fbb, [kind |-> "table",
                                by |-> files["mm"].lines[p].subst["CREATE_NAME"]]))

\* make<Element>Array:count: "_fbb->CreateVector(...)"
CallMakeArray ==
    /\ HasRoom
    /\ \E p \in Emitted("array_builder") :
          Called("make_array",
                 FbbWrite(fbb, [kind |-> "vector",
                                by |-> files["mm"].lines[p].subst["OFFSET_NAME"]]))

\* make<Element>SortedArray:count: "_fbb->CreateVectorOfSortedTables(...)"
CallMakeSortedArray ==
    /\ HasRoom
    /\ \E p \in Emitted("array_sorted_builder") :
          Called("make_sorted_array",
                 FbbWrite(fbb, [kind |-> "sorted_vector",
                                by |-> files["mm"].lines[p].subst["OFFSET_NAME"]]))

\* finishWith<Root>: "_fbb->Finish(flatbuffers::Offset<{{FLATBUF_NAME}}>(...))"
CallFinish ==
    /\ HasRoom
    /\ \E p \in Emitted("finish") :
          Called("finish",
                 FbbFinish(fbb, [kind |-> "root",
                                 by |-> files["mm"].lines[p].subst["FLATBUF_NAME"]]))

\* The generated C++ getter of a field (section 4.3, field()): the stored
\* value, or for an absent entry the default, which for a string, vector,
\* table or struct field is the null pointer.
GetterValue(type, set) ==
    IF set THEN "stored"
    ELSE IF type.base_type \in ScalarTypes THEN "default" ELSE "nullptr"

\* What "return {{FIELD_CAST}};" yields for the local `value`.  Calling a
\* member through a null pointer is undefined: the call may crash or go on
\* with whatever the address holds.
CastOutcomes(cast, value) ==
    CASE cast.form = "value" ->
            {IF value = "default" THEN "default" ELSE "stored_value"}
      [] cast.form = "{ .buf = value }" ->
            {IF value = "nullptr" THEN "null_reference" ELSE "reference"}
      [] cast.form = "NSString initWithBytesNoCopy" ->
            IF value = "nullptr" THEN {"crash", "garbage_string"} ELSE {"string"}

\* <Ref>_<field>(self_): "auto value = ...->{{FIELD_NAME}}(); return
\* {{FIELD_CAST}};" on a table built with the field set or not set.  The
\* fields of a fixed struct are always there; the C++ class has no getter
\* for a deprecated field.
ReadField ==
    /\ Linked
    /\ \E p \in Emitted("accessor") : \E set \in BOOLEAN :
       LET line == files["mm"].lines[p]
           struct_def == StructAt(line.sd)
           type == struct_def.fields[line.field].type
       IN  /\ ~struct_def.fields[line.field].deprecated
           /\ struct_def.fixed => set
           /\ \E o \in CastOutcomes(line.subst["FIELD_CAST"], GetterValue(type, set)) :
                 result' = [call |-> "accessor", outcome |-> o, field_set |-> set]
           /\ UNCHANGED <<parser, pc, arrays, code_h_, code_mm_, files, ret, fbb>>

\* The generator runs before the emitted code is used.
Generate == fbb.buf = <<>> /\ result = NoResult /\ Next

NextRuntime ==
    \/ Generate
    \/ CallMakeTable
    \/ CallMakeArray
    \/ CallMakeSortedArray
    \/ CallFinish
    \/ ReadField

SpecRuntime == InitRuntime /\ [][NextRuntime]_vars

----------------------------------------------------------------------------
(* Reading the emitted text.                                               *)

\* The texts to look at: what the writers hold and what the files hold.
HeaderTexts == {code_h_.lines, files["h"].lines}

ImplTexts == {code_mm_.lines, files["mm"].lines}

AllTexts == HeaderTexts \cup ImplTexts \cup {files["swift"].lines}

DeclKinds == {"struct_open", "member", "struct_close", "ref_typedef", "offset_typedef"}

AccessorKinds == {"accessor"}

BuilderKinds ==
    {"builder", "builder_temporary", "builder_create", "builder_argument",
     "builder_close"}

\* The positions of the lines of the given kinds emitted for struct i.
LinesOf(L, kinds, i) == {p \in 1..Len(L) : L[p].kind \in kinds /\ L[p].sd = i}

\* generate() has run through its last += ; the writers hold the whole text.
Complete == pc \in {"save_h", "save_mm", "save_swift", "returned"}

Emittable == {i \in 1..NumStructs : ~StructAt(i).generated}

UnsupportedFields ==
    {<<i, j>> \in (1..NumStructs) \X (1..2) :
        /\ j <= Len(StructAt(i).fields)
        /\ ~StructAt(i).generated
        /\ UnsupportedType(StructAt(i).fields[j].type)}

----------------------------------------------------------------------------
(* Claims.                                                                 *)

\* C1: no step of generate() changes the schema model: the struct list and
\* its order, every struct's fields and flags (generated included), every
\* field's type and flags, and the root struct stay what they were.
C1_SchemaNeverMutated == [][parser' = parser]_vars

\* A call has returned true having emitted a struct whose generated flag is
\* still clear.
C1_Witness ==
    /\ pc = "returned" /\ ret = "true"
    /\ \E i \in 1..NumStructs :
          /\ ~StructAt(i).generated
          /\ LinesOf(files["h"].lines, {"ref_typedef"}, i) # {}

\* C2: within each pass (typedef blocks, accessor blocks, builder methods)
\* the lines of struct A come before the lines of struct B whenever A is
\* before B in the struct list, and the complete text holds a typedef block
\* for every non-generated struct and a builder for every non-generated table.
C2_OutputInListOrder ==
    /\ \A L \in HeaderTexts \cup ImplTexts :
       \A kinds \in {DeclKinds, AccessorKinds, BuilderKinds} :
       \A p, q \in 1..Len(L) :
          (/\ p < q
           /\ L[p].kind \in kinds /\ L[q].kind \in kinds
           /\ L[p].sd # 0 /\ L[q].sd # 0)
          => L[p].sd <= L[q].sd
    /\ Complete =>
          \A i \in Emittable :
             /\ LinesOf(code_h_.lines, {"ref_typedef"}, i) # {}
             /\ LinesOf(code_h_.lines, {"accessor"}, i) # {}
             /\ LinesOf(code_mm_.lines, {"accessor"}, i) # {}
             /\ ~StructAt(i).fixed => LinesOf(code_h_.lines, {"builder"}, i) # {}

\* Two non-generated tables, both with their three blocks in the saved header.
C2_Witness ==
    /\ pc = "returned" /\ ret = "true"
    /\ \E a, b \in Emittable :
          /\ a < b
          /\ ~StructAt(a).fixed /\ ~StructAt(b).fixed
          /\ \A i \in {a, b} : \A kinds \in {{"ref_typedef"}, {"accessor"}, {"builder"}} :
                LinesOf(files["h"].lines, kinds, i) # {}

\* C3: no typedef block, accessor or builder line is emitted for a struct
\* whose generated flag is set, and in the complete text a struct has a
\* builder method exactly when it is non-generated and not fixed.
C3_GeneratedSkipped ==
    /\ \A L \in HeaderTexts \cup ImplTexts : \A p \in 1..Len(L) :
          (L[p].kind \in DeclKinds \cup AccessorKinds \cup BuilderKinds /\ L[p].sd # 0)
          => ~StructAt(L[p].sd).generated
    /\ Complete =>
          \A L \in {code_h_.lines, code_mm_.lines} : \A i \in 1..NumStructs :
             (LinesOf(L, {"builder"}, i) # {})
             <=> (~StructAt(i).generated /\ ~StructAt(i).fixed)

\* A complete text for a schema that holds a generated table next to a table
\* that got its builder.
C3_Witness ==
    /\ pc = "returned" /\ ret = "true"
    /\ \E g, t \in 1..NumStructs :
          /\ StructAt(g).generated /\ ~StructAt(g).fixed
          /\ ~StructAt(t).generated
          /\ LinesOf(files["h"].lines, {"builder"}, t) # {}

\* C4: with a union or array field (or a vector of unions) in a non-generated
\* struct, generate() never gets past the accessor pass and never returns, no
\* line is emitted for that field, and no output file exists.
C4_UnsupportedAborts ==
    UnsupportedFields # {} =>
       /\ pc \in {"idle", "struct_decls", "array_decls", "struct_fields", "aborted"}
       /\ ret = "none"
       /\ \A f \in {"h", "mm", "swift"} : ~files[f].exists
       /\ \A L \in AllTexts : \A p \in 1..Len(L) :
             L[p].kind \in {"member", "accessor", "builder_argument"}
             => <<L[p].sd, L[p].field>> \notin UnsupportedFields

\* generate() was ended by abort() on a schema with an unsupported field.
C4_Witness == pc = "aborted" /\ UnsupportedFields # {}

BuilderCalls == {"make_table", "make_array", "make_sorted_array", "finish"}

\* C5: once the builder is finished, every call of an emitted builder method
\* (make...With, make...Array, make...SortedArray, a second finishWith) ends
\* in a builder-state error, and no step changes the finished buffer.
C5_NoMutationAfterFinish ==
    [][fbb.finished =>
          /\ fbb' = fbb
          /\ result'.call \in BuilderCalls => result'.outcome = "BuilderStateError"]_vars

\* A table builder was called on a finished builder and was refused.
C5_Witness ==
    /\ fbb.finished /\ Len(fbb.buf) > 1
    /\ result.call = "make_table" /\ result.outcome = "BuilderStateError"

\* C6: reading a field that was not set through its emitted accessor yields
\* the field's default (the declared default of a scalar, a null reference
\* for a string, vector, struct or table) and never an error.
C6_UnsetFieldReadsDefault ==
    (result.call = "accessor" /\ ~result.field_set)
    => result.outcome \in {"default", "null_reference"}

\* C7: for every entry of the arrays map the sorted builder and lookupByKey
\* are emitted exactly when the element is a struct with has_key, both or
\* neither, in the header and in the implementation file.
C7_SortedIffKey ==
    Complete =>
       \A e \in 1..Len(arrays) :
       \A L \in {code_h_.lines, code_mm_.lines} :
       \A kind \in {"array_sorted_builder", "array_lookup"} :
          (\E p \in 1..Len(L) : L[p].kind = kind /\ L[p].arr = arrays[e].key)
          <=> ElementHasKey(arrays[e].type)

\* The saved text for a schema with a vector of keyed elements.
C7_Witness ==
    /\ pc = "returned" /\ ret = "true"
    /\ \E e \in 1..Len(arrays) :
          /\ ElementHasKey(arrays[e].type)
          /\ \E p \in 1..Len(files["h"].lines) :
                /\ files["h"].lines[p].kind = "array_lookup"
                /\ files["h"].lines[p].arr = arrays[e].key

FinishLines(L) == {p \in 1..Len(L) : L[p].kind = "finish"}

\* C8: the complete text holds exactly one finishWith method when the schema
\* has a root and none when it has no root, and the method's parameter type
\* is the Offset type of the root struct and of no other struct.
C8_FinishForRootOnly ==
    Complete =>
       \A L \in {code_h_.lines, code_mm_.lines} :
          IF parser.root_struct_def_ = 0 THEN FinishLines(L) = {}
          ELSE /\ Cardinality(FinishLines(L)) = 1
               /\ \A p \in FinishLines(L) :
                     /\ L[p].subst["OFFSET_NAME"]
                           = GenTypeOffsetDef(StructAt(parser.root_struct_def_))
                     /\ \A i \in 1..NumStructs :
                           i # parser.root_struct_def_
                           => GenTypeOffsetDef(StructAt(i)) # L[p].subst["OFFSET_NAME"]

VectorFieldTypes ==
    {StructAt(i).fields[j].type :
        <<i, j>> \in {x \in (1..NumStructs) \X (1..2) :
                        /\ x[2] <= Len(StructAt(x[1]).fields)
                        /\ StructAt(x[1]).fields[x[2]].type.base_type = "VECTOR"
                        /\ StructAt(x[1]).fields[x[2]].type.element = "STRUCT"}}

\* C9: distinct StructDefs get distinct Ref and Offset type names, distinct
\* vector types get distinct array type names, and no Ref or Offset name is
\* typedef'd twice in the header.
C9_UniqueTypeNames ==
    /\ pc # "idle" =>
          /\ \A i, j \in 1..NumStructs :
                i # j => /\ GenTypeRefDef(StructAt(i)) # GenTypeRefDef(StructAt(j))
                         /\ GenTypeOffsetDef(StructAt(i)) # GenTypeOffsetDef(StructAt(j))
          /\ \A t, u \in VectorFieldTypes :
                t # u => GenTypeInternal(t) # GenTypeInternal(u)
    /\ \A L \in HeaderTexts : \A p, q \in 1..Len(L) :
          (/\ p # q
           /\ L[p].kind \in {"ref_typedef", "offset_typedef"}
           /\ L[p].kind = L[q].kind)
          => L[p].subst # L[q].subst

TypedefKinds == {"ref_typedef", "offset_typedef"}

UseKinds ==
    {"accessor", "array_count", "array_subscript", "array_lookup", "builder",
     "array_builder", "array_sorted_builder", "finish"}

\* C10: in the header every Ref and Offset typedef comes before the first
\* accessor and the first builder method, and once the accessor pass starts
\* the typedefs of every non-generated struct and of every entry of the
\* arrays map are there.
C10_TypedefsFirst ==
    /\ \A L \in HeaderTexts : \A p, q \in 1..Len(L) :
          (L[p].kind \in TypedefKinds /\ L[q].kind \in UseKinds) => p < q
    /\ \A L \in HeaderTexts :
          (\E q \in 1..Len(L) : L[q].kind \in UseKinds) =>
             /\ \A i \in Emittable : \A kind \in TypedefKinds :
                   \E p \in 1..Len(L) : L[p].kind = kind /\ L[p].sd = i
             /\ \A e \in 1..Len(arrays) : \A kind \in TypedefKinds :
                   \E p \in 1..Len(L) : L[p].kind = kind /\ L[p].arr = arrays[e].key

\* The saved header of two tables that refer to each other, the first one
\* through a vector: accessors and builders name types of the later struct.
C10_Witness ==
    /\ pc = "returned" /\ ret = "true"
    /\ NumStructs = 2 /\ Len(arrays) > 0
    /\ \A i \in 1..2 : ~StructAt(i).generated /\ ~StructAt(i).fixed
    /\ StructAt(1).fields[1].type.struct_def = 2
    /\ StructAt(2).fields[1].type.struct_def = 1
    /\ \E q \in 1..Len(files["h"].lines) : files["h"].lines[q].kind = "builder"

\* The indices of the non-deprecated fields of struct i, in declaration
\* order.
LiveFields(i) ==
    SelectSeq([j \in 1..Len(StructAt(i).fields) |-> j],
              LAMBDA j : ~StructAt(i).fields[j].deprecated)

\* The lines of a kind emitted for struct i, in the order of the text.
SeqOf(L, kind, i) == SelectSeq(L, LAMBDA l : l.kind = kind /\ l.sd = i)

\* C11: the make<Table>With selector of a non-generated table has one
\* parameter per non-deprecated field in declaration order, the Create<Table>
\* call has one argument per non-deprecated field in the same order after the
\* builder, and the k-th parameter and the k-th argument are the same field's.
C11_SelectorMatchesCreateCall ==
    /\ \A L \in ImplTexts \cup HeaderTexts : \A p \in 1..Len(L) :
          L[p].kind = "builder" =>
             LET live == LiveFields(L[p].sd)
                 params == L[p].subst["SELECTOR_DECL"].params
             IN  /\ Len(params) = Len(live)
                 /\ \A k \in 1..Len(live) :
                       params[k].field = StructAt(L[p].sd).fields[live[k]].name
    /\ \A L \in ImplTexts : \A i \in 1..NumStructs :
          LinesOf(L, {"builder_create"}, i) # {} =>
             LET live == LiveFields(i)
                 args == SeqOf(L, "builder_argument", i)
             IN  /\ Len(args) = Len(live)
                 /\ \A k \in 1..Len(live) : args[k].field = live[k]
                 /\ \A c \in LinesOf(L, {"builder_create"}, i) :
                    \A a \in LinesOf(L, {"builder_argument"}, i) :
                    \A e \in LinesOf(L, {"builder_close"}, i) : c < a /\ a < e
    /\ Complete =>
          \A i \in 1..NumStructs :
             (~StructAt(i).generated /\ ~StructAt(i).fixed)
             => /\ Cardinality(LinesOf(code_mm_.lines, {"builder"}, i)) = 1
                /\ Cardinality(LinesOf(code_mm_.lines, {"builder_create"}, i)) = 1

\* The saved implementation of a schema with a table of two live fields and
\* a table with a deprecated field, both with their builders.
C11_Witness ==
    /\ pc = "returned" /\ ret = "true"
    /\ \E i, d \in 1..NumStructs :
          /\ Len(LiveFields(i)) = 2
          /\ Len(LiveFields(d)) < Len(StructAt(d).fields)
          /\ Len(SeqOf(files["mm"].lines, "builder_argument", i)) = 2
          /\ Len(SeqOf(files["mm"].lines, "builder_argument", d)) = 1

\* The struct of the elements of an entry of the arrays map, and the type of
\* its first key field.
ElementOf(entry) == StructAt(VectorType(entry.type).struct_def)

KeyTypeOf(entry) == ElementOf(entry).fields[FirstKeyField(ElementOf(entry))].type

KeyableTypes == ScalarTypes \cup {"STRING"}

C13_RepeatableOutput ==
    [][\A f \in DOMAIN files :
          (files[f].exists /\ files'[f].exists) => files'[f].lines = files[f].lines]_vars

\* The file holds the text generate() built for it in this call.
Saved(f) ==
    /\ files[f].exists
    /\ files[f].lines = (CASE f = "h" -> code_h_.lines
                           [] f = "mm" -> code_mm_.lines
                           [] OTHER -> <<>>)

\* What every step of the save chain keeps to: a file changes only in its
\* turn (.h, then .mm, then .swift), the chain goes on only past a file that
\* was saved, true is returned only with all three saved, and the step that
\* returns false writes no file and ends the call.
SaveChainStep ==
    /\ files'["h"] # files["h"] => pc = "save_h"
    /\ files'["mm"] # files["mm"] => pc = "save_mm"
    /\ files'["swift"] # files["swift"] => pc = "save_swift"
    /\ pc' = "save_mm" => Saved("h")'
    /\ pc' = "save_swift" => Saved("h")' /\ Saved("mm")'
    /\ (ret' = "true" /\ ret # "true")
       => pc = "save_swift" /\ Saved("h")' /\ Saved("mm")' /\ Saved("swift")'
    /\ (ret' = "false" /\ ret # "false")
       => pc \in {"save_h", "save_mm", "save_swift"} /\ pc' = "returned" /\ files' = files
    /\ (pc' = "returned" /\ pc # "returned") => ret' \in {"true", "false"}

LiveStructFields ==
    {x \in (1..NumStructs) \X (1..2) :
        ~StructAt(x[1]).generated /\ x[2] <= Len(StructAt(x[1]).fields)}

FieldType(x) == StructAt(x[1]).fields[x[2]].type

\* The array types that vector fields of non-generated structs call for.
LiveArrayKeys ==
    {GenTypeInternal(FieldType(x)) :
        x \in {y \in LiveStructFields :
                 /\ FieldType(y).base_type = "VECTOR"
                 /\ FieldType(y).element = "STRUCT"}}

\* What can end generate() early in a schema, looking at the non-generated
\* structs only: a union or array field, a vector of elements keyed by a
\* field that cannot be a key, a comment with a key that has no value.
LiveAbortCause ==
    \/ UnsupportedFields # {}
    \/ \E x \in LiveStructFields :
          /\ FieldType(x).base_type = "VECTOR" /\ FieldType(x).element = "STRUCT"
          /\ ElementHasKey(FieldType(x))
          /\ KeyTypeOf([type |-> FieldType(x)]).base_type \notin KeyableTypes
    \/ \E i \in Emittable : StructAt(i).doc_comment # <<>>

\* C15: what generate() emits does not depend on the fields of the structs
\* flagged generated: every array typedef, array accessor and array builder
\* in the text is called for by a vector field of a non-generated struct, and
\* generate() is ended early only on account of a non-generated struct.
C15_GeneratedContentIgnored ==
    /\ \A L \in HeaderTexts \cup ImplTexts : \A p \in 1..Len(L) :
          L[p].arr # "" => L[p].arr \in LiveArrayKeys
    /\ pc = "aborted" => LiveAbortCause

\* The parameter names the selector of struct i's builder declares for the
\* field of index j, read off the method's first line in the text L.
DeclaredNames(L, i, j) ==
    {L[b].subst["SELECTOR_DECL"].params[k].argument :
        <<b, k>> \in {x \in LinesOf(L, {"builder"}, i) \X (1..2) :
                        /\ x[2] <= Len(L[x[1]].subst["SELECTOR_DECL"].params)
                        /\ L[x[1]].subst["SELECTOR_DECL"].params[x[2]].field
                              = StructAt(i).fields[j].name}}

\* C16: in every make<Table>With method the identifier read for a field's
\* argument in the Create<Table> call, and the identifier tested and read
\* from to build the temporary of a fixed-struct field, is the parameter name
\* the selector declares for that field.
C16_BodyReadsDeclaredParameters ==
    \A L \in ImplTexts : \A p \in 1..Len(L) :
       /\ L[p].kind = "builder_argument" =>
             DeclaredNames(L, L[p].sd, L[p].field)
                = {L[p].subst["FIELD_CAST"].reads[1]}
       /\ L[p].kind = "builder_temporary" =>
             /\ DeclaredNames(L, L[p].sd, L[p].field) = {L[p].temporary.test}
             /\ \A m \in 1..Len(L[p].temporary.members) :
                   DeclaredNames(L, L[p].sd, L[p].field)
                      = {L[p].temporary.members[m].object}

FunctionKinds ==
    {"accessor", "array_count", "array_subscript", "array_lookup", "builder",
     "array_builder", "array_sorted_builder", "finish"}

\* The definitions in the implementation text M of the function or method
\* that line d of the header declares: same kind of function, same name,
\* return type and parameter list (what the header line is made of).
DefinitionsOf(M, d) ==
    {q \in 1..Len(M) :
        /\ M[q].kind = d.kind
        /\ \A k \in DOMAIN d.subst : M[q].subst[k] = d.subst[k]}

\* The declarations in the header text H of what line m of the
\* implementation defines.
DeclarationsOf(H, m) ==
    {p \in 1..Len(H) :
        /\ H[p].kind = m.kind
        /\ \A k \in DOMAIN H[p].subst : m.subst[k] = H[p].subst[k]}

\* C17: when generate() completes, every function or method declared in the
\* header has exactly one definition in the implementation file with the same
\* name, return type and parameter list, and every definition has such a
\* declaration.
C17_HeaderMatchesImplementation ==
    Complete =>
       /\ \A p \in 1..Len(code_h_.lines) :
             code_h_.lines[p].kind \in FunctionKinds
             => Cardinality(DefinitionsOf(code_mm_.lines, code_h_.lines[p])) = 1
       /\ \A q \in 1..Len(code_mm_.lines) :
             code_mm_.lines[q].kind \in FunctionKinds
             => DeclarationsOf(code_h_.lines, code_mm_.lines[q]) # {}

\* C18: a deprecated field is in nothing generate() emits: no parameter of a
\* make<Table>With selector, no argument or temporary of a Create<Table>
\* call, no member of a fixed struct's typedef, no accessor function.
C18_DeprecatedOmitted ==
    \A L \in HeaderTexts \cup ImplTexts : \A p \in 1..Len(L) :
       /\ L[p].kind \in {"member", "accessor", "builder_argument", "builder_temporary"}
          => ~StructAt(L[p].sd).fields[L[p].field].deprecated
       /\ L[p].kind = "builder"
          => \A k \in 1..Len(L[p].subst["SELECTOR_DECL"].params) :
             \A j \in 1..Len(StructAt(L[p].sd).fields) :
                StructAt(L[p].sd).fields[j].name
                   = L[p].subst["SELECTOR_DECL"].params[k].field
                => ~StructAt(L[p].sd).fields[j].deprecated

====
